---- MODULE Spec2Model ----
(***************************************************************************)
(* hgthaianh/expense-tracker: the Expense record (models.py), the JSON     *)
(* file storage (storage.py) and the ExpenseManager (manager.py).          *)
(*                                                                         *)
(* Strings are sequences of characters, so that lower(), strip(), string   *)
(* comparison and startswith are computed and not assumed.  A date is a    *)
(* sequence of digits compared lexicographically, as Python compares str.  *)
(* Amounts are integers (whole currency units).  created_at is written     *)
(* once and never read by any operation modelled here; it is left out.     *)
(* A JSON value is a record [t, v]: t is its JSON type ("missing" when the *)
(* key is absent from the object).                                         *)
(***************************************************************************)
EXTENDS Integers, Sequences, FiniteSets, TLC

VARIABLES
    file,     \* the backing file: [kind, items]
    op,       \* the last Manager/Storage call and its arguments
    ret,      \* what that call returned or raised
    pre,      \* the backing file when that call started
    wrote,    \* whether that call reached _write_data
    lock,     \* JSONStorage._lock: 0 when free, else the thread holding it
    pc,       \* each thread's position in its storage operation
    job,      \* each thread's operation and argument
    data,     \* each thread's local: what _read_data returned to it
    inio,     \* each thread: "none", "read" or "write" while inside file I/O
    torn      \* whether some read returned a half-written file

vars == <<file, op, ret, pre, wrote, lock, pc, job, data, inio, torn>>

-----------------------------------------------------------------------------
(* Bounds of the model *)

\* most records the stored collection holds in the sequential specifications
MaxFile == 2
\* how many distinct values str(uuid.uuid4())[:8] can take
NumIds == 3
\* most elements of an arbitrary JSON array found in the backing file
MaxRaw == 2
\* most records of the collection list_expenses is run on
MaxList == 3
\* threads running storage operations concurrently
NumThreads == 2

IDs == 1..NumIds
Threads == 1..NumThreads

-----------------------------------------------------------------------------
(* Strings *)

LowerChar(c) == IF c = "A" THEN "a" ELSE IF c = "B" THEN "b" ELSE c

\* str.lower()
Lower(s) == [i \in 1..Len(s) |-> LowerChar(s[i])]

IsSpace(c) == c = " "

RECURSIVE LStrip(_)
LStrip(s) == IF s # <<>> /\ IsSpace(Head(s)) THEN LStrip(Tail(s)) ELSE s

RECURSIVE RStrip(_)
RStrip(s) ==
    IF s # <<>> /\ IsSpace(s[Len(s)]) THEN RStrip(SubSeq(s, 1, Len(s) - 1)) ELSE s

\* str.strip()
Strip(s) == RStrip(LStrip(s))

\* Python's a <= b on two str (here: sequences of digits)
RECURSIVE StrLeq(_, _)
StrLeq(a, b) ==
    IF a = <<>> THEN TRUE
    ELSE IF b = <<>> THEN FALSE
    ELSE IF Head(a) < Head(b) THEN TRUE
    ELSE IF Head(a) > Head(b) THEN FALSE
    ELSE StrLeq(Tail(a), Tail(b))

\* datetime.now().strftime("%Y-%m-%d"): the local date of the run
Today == <<2, 3>>

-----------------------------------------------------------------------------
(* JSON values and the Expense record *)

Missing == [t |-> "missing"]
Null == [t |-> "null"]
\* a JSON string that float() cannot parse
Text == [t |-> "text"]
Str(s) == [t |-> "str", v |-> s]
Num(n) == [t |-> "num", v |-> n]

\* the value a call returns: exc is "none" or the exception it raised
Ok(x) == [exc |-> "none", val |-> x]
Raise(e) == [exc |-> e]

\* __post_init__ without the strip() of category and description
PostInitNoTrim(amount, category, description, date, id) ==
    IF amount <= 0 THEN Raise("ValueError")
    ELSE IF category.t # "str" THEN Raise("AttributeError")
    ELSE IF description.t # "str" THEN Raise("AttributeError")
    ELSE IF Strip(description.v) = <<>> THEN Raise("ValueError")
    ELSE Ok([id |-> id, amount |-> amount, category |-> Lower(category.v),
             description |-> description.v, date |-> date])

\* __post_init__ testing amount < 0 in place of amount <= 0
PostInitZeroOk(amount, category, description, date, id) ==
    IF amount < 0 THEN Raise("ValueError")
    ELSE IF category.t # "str" THEN Raise("AttributeError")
    ELSE IF description.t # "str" THEN Raise("AttributeError")
    ELSE IF Strip(description.v) = <<>> THEN Raise("ValueError")
    ELSE Ok([id |-> id, amount |-> amount, category |-> Strip(Lower(category.v)),
             description |-> Strip(description.v), date |-> date])

\* Expense.__post_init__ on the constructor's arguments; category and
\* description arrive as JSON values because from_dict passes them unchecked
PostInit(amount, category, description, date, id) ==
    IF amount <= 0 THEN Raise("ValueError")
    ELSE IF category.t # "str" THEN Raise("AttributeError")
    ELSE IF description.t # "str" THEN Raise("AttributeError")
    ELSE IF Strip(description.v) = <<>> THEN Raise("ValueError")
    ELSE Ok([id |-> id, amount |-> amount, category |-> Strip(Lower(category.v)),
             description |-> Strip(description.v), date |-> date])

\* Expense.to_dict
ToDict(e) ==
    [t |-> "dict", id |-> Num(e.id), amount |-> Num(e.amount),
     category |-> Str(e.category), description |-> Str(e.description),
     date |-> Str(e.date)]

\* float(data["amount"])
AmountOf(item) ==
    CASE item.amount.t = "missing" -> Raise("KeyError")
      [] item.amount.t = "null" -> Raise("TypeError")
      [] item.amount.t = "text" -> Raise("ValueError")
      [] OTHER -> Ok(item.amount.v)

\* Expense.from_dict; uuid is the id str(uuid.uuid4())[:8] would give
FromDict(item, uuid) ==
    IF item.t # "dict" THEN Raise("AttributeError")
    ELSE IF AmountOf(item).exc # "none" THEN AmountOf(item)
    ELSE IF item.category.t = "missing" THEN Raise("KeyError")
    ELSE IF item.description.t = "missing" THEN Raise("KeyError")
    ELSE PostInit(AmountOf(item).val, item.category, item.description,
                  IF item.date.t = "missing" THEN Today ELSE item.date.v,
                  IF item.id.t = "missing" THEN uuid ELSE item.id.v)

-----------------------------------------------------------------------------
(* JSONStorage *)

File(kind, items) == [kind |-> kind, items |-> items]

\* _read_data: FileNotFoundError and JSONDecodeError are caught, a JSON value
\* that is not a list reads as []; any other exception leaves the function
\* (open() on a file without read permission, bytes that are not UTF-8)
ReadData(f) ==
    CASE f.kind = "list" -> Ok(f.items)
      [] f.kind \in {"absent", "invalid", "nonlist", "partial"} -> Ok(<<>>)
      [] f.kind = "undecodable" -> Raise("UnicodeDecodeError")
      [] OTHER -> Raise("PermissionError")

\* _write_data: the file holds json.dump(data) afterwards
WriteData(d) == File("list", d)

\* the elements from_dict has to draw an id for
NeedsId(item) == item.t = "dict" /\ item.id.t = "missing"

\* the ids uuid4 may give during one load_expenses, by position
GenChoices(d) ==
    LET need == {i \in 1..Len(d) : NeedsId(d[i])}
    IN  {[i \in 1..Len(d) |-> IF i \in need THEN h[i] ELSE 1] : h \in [need -> IDs]}

\* the loop of load_expenses from element i on: ValueError and KeyError skip
\* the element, any other exception leaves the function
RECURSIVE LoadFrom(_, _, _, _)
LoadFrom(d, gen, i, acc) ==
    IF i > Len(d) THEN Ok(acc)
    ELSE LET r == FromDict(d[i], gen[i])
         IN  CASE r.exc = "none" -> LoadFrom(d, gen, i + 1, Append(acc, r.val))
               [] r.exc \in {"ValueError", "KeyError"} -> LoadFrom(d, gen, i + 1, acc)
               [] OTHER -> Raise(r.exc)

\* load_expenses on what _read_data returned
LoadData(d, gen) == LoadFrom(d, gen, 1, <<>>)

\* save_expenses: the file after it
SaveExpenses(expenses) ==
    WriteData([i \in 1..Len(expenses) |-> ToDict(expenses[i])])

\* a call's outcome: the exception or value, the file afterwards, and
\* whether _write_data ran
Outcome(r, f, w) == [r |-> r, file |-> f, wrote |-> w]

\* JSONStorage.add_expense
StorageAdd(f, e, gen) ==
    LET rd == ReadData(f)
        ld == LoadData(rd.val, gen)
    IN  IF rd.exc # "none" THEN Outcome(rd, f, FALSE)
        ELSE IF ld.exc # "none" THEN Outcome(ld, f, FALSE)
        ELSE Outcome(Ok(e), SaveExpenses(Append(ld.val, e)), TRUE)

\* [e for e in expenses if e.id != expense_id]
RECURSIVE WithoutId(_, _)
WithoutId(expenses, id) ==
    IF expenses = <<>> THEN <<>>
    ELSE IF Head(expenses).id # id
         THEN <<Head(expenses)>> \o WithoutId(Tail(expenses), id)
         ELSE WithoutId(Tail(expenses), id)

\* delete_expense returning True without the save_expenses call
StorageDeleteNoSave(f, id, gen) ==
    LET rd == ReadData(f)
        ld == LoadData(rd.val, gen)
        kept == WithoutId(ld.val, id)
    IN  IF rd.exc # "none" THEN Outcome(rd, f, FALSE)
        ELSE IF ld.exc # "none" THEN Outcome(ld, f, FALSE)
        ELSE Outcome(Ok(Len(kept) < Len(ld.val)), f, FALSE)

\* JSONStorage.delete_expense
StorageDelete(f, id, gen) ==
    LET rd == ReadData(f)
        ld == LoadData(rd.val, gen)
        kept == WithoutId(ld.val, id)
    IN  IF rd.exc # "none" THEN Outcome(rd, f, FALSE)
        ELSE IF ld.exc # "none" THEN Outcome(ld, f, FALSE)
        ELSE IF Len(kept) < Len(ld.val)
             THEN Outcome(Ok(TRUE), SaveExpenses(kept), TRUE)
             ELSE Outcome(Ok(FALSE), f, FALSE)

\* JSONStorage.load_expenses
StorageLoad(f, gen) ==
    LET rd == ReadData(f)
    IN  IF rd.exc # "none" THEN rd ELSE LoadData(rd.val, gen)

\* the loop of get_expense_by_id: the first record with the id, or None
RECURSIVE FirstWithId(_, _)
FirstWithId(expenses, id) ==
    IF expenses = <<>> THEN [found |-> FALSE]
    ELSE IF Head(expenses).id = id THEN [found |-> TRUE, expense |-> Head(expenses)]
    ELSE FirstWithId(Tail(expenses), id)

\* JSONStorage.get_expense_by_id
GetExpenseById(f, id, gen) ==
    LET ld == StorageLoad(f, gen)
    IN  IF ld.exc # "none" THEN ld ELSE Ok(FirstWithId(ld.val, id))

-----------------------------------------------------------------------------
(* ExpenseManager *)

\* date or datetime.now().strftime("%Y-%m-%d")
DateOrToday(date) == IF date.t = "str" /\ date.v # <<>> THEN date.v ELSE Today

\* ExpenseManager.add_expense
ManagerAdd(f, amount, category, description, date, uuid, gen) ==
    LET e == PostInit(amount, Str(category), Str(description), DateOrToday(date), uuid)
    IN  IF e.exc # "none" THEN Outcome(e, f, FALSE)
        ELSE StorageAdd(f, e.val, gen)

\* ExpenseManager.delete_expense
ManagerDelete(f, id, gen) == StorageDelete(f, id, gen)

-----------------------------------------------------------------------------
(* Inputs *)

AddAmounts == {0, 1, 2}
AddCategories == {<<" ">>, <<" ", "A">>}
AddDescriptions == {<<" ">>, <<" ", "a", " ">>}
AddDates == {Missing, Str(<<>>), Str(<<2, 1>>)}

-----------------------------------------------------------------------------
(* One command after another, as cli.py runs them: get_manager constructs   *)
(* a JSONStorage, then the command makes one call on it.                    *)

IdleThreads ==
    /\ lock = 0
    /\ pc = [t \in Threads |-> "idle"]
    /\ job = [t \in Threads |-> [name |-> "none"]]
    /\ data = [t \in Threads |-> <<>>]
    /\ inio = [t \in Threads |-> "none"]
    /\ torn = FALSE

threadVars == <<lock, pc, job, data, inio, torn>>

\* _ensure_file_exists: the file afterwards
EnsureFileExists(f) == IF f.kind = "absent" THEN WriteData(<<>>) ELSE f

\* JSONStorage.__init__ on a path where no file exists
Init ==
    /\ pre = File("absent", <<>>)
    /\ file = EnsureFileExists(pre)
    /\ op = [name |-> "init"]
    /\ ret = Ok(TRUE)
    /\ wrote = TRUE
    /\ IdleThreads

Finish(o, out) ==
    /\ op' = o
    /\ pre' = file
    /\ ret' = out.r
    /\ file' = out.file
    /\ wrote' = out.wrote
    /\ UNCHANGED threadVars

Stored(f) == IF f.kind = "list" THEN f.items ELSE <<>>

\* get_manager for the next command: JSONStorage.__init__
NewStorage ==
    /\ op.name # "init"
    /\ Finish([name |-> "init"],
              Outcome(Ok(TRUE), EnsureFileExists(file), file.kind = "absent"))

AddExpense ==
    \E amount \in AddAmounts, category \in AddCategories,
       description \in AddDescriptions, date \in AddDates, uuid \in IDs,
       gen \in GenChoices(Stored(file)) :
        /\ op.name = "init"
        /\ Len(Stored(file)) < MaxFile
        /\ Finish([name |-> "add", amount |-> amount, category |-> category,
                   description |-> description, date |-> date, uuid |-> uuid,
                   gen |-> gen],
                  ManagerAdd(file, amount, category, description, date, uuid, gen))

DeleteExpense ==
    \E id \in IDs, gen \in GenChoices(Stored(file)) :
        /\ op.name = "init"
        /\ Finish([name |-> "delete", id |-> id, gen |-> gen],
                  ManagerDelete(file, id, gen))

LoadExpenses ==
    \E gen \in GenChoices(Stored(file)) :
        /\ op.name = "init"
        /\ Finish([name |-> "load", gen |-> gen],
                  Outcome(StorageLoad(file, gen), file, FALSE))

Next == NewStorage \/ AddExpense \/ DeleteExpense \/ LoadExpenses

Spec == Init /\ [][Next]_vars

-----------------------------------------------------------------------------
(* ExpenseManager.list_expenses *)

\* expenses.sort(key=lambda e: e.date, reverse=True), one insertion: the sort
\* is stable, so e goes behind every record whose date is >= its own
RECURSIVE InsertByDate(_, _)
InsertByDate(sorted, e) ==
    IF sorted = <<>> THEN <<e>>
    ELSE IF StrLeq(e.date, Head(sorted).date)
         THEN <<Head(sorted)>> \o InsertByDate(Tail(sorted), e)
         ELSE <<e>> \o sorted

RECURSIVE SortByDateDesc(_)
SortByDateDesc(s) ==
    IF s = <<>> THEN <<>>
    ELSE InsertByDate(SortByDateDesc(SubSeq(s, 1, Len(s) - 1)), s[Len(s)])

\* Python's truth value of an Optional[str] / Optional[int] argument
Truthy(x) ==
    CASE x.t = "str" -> x.v # <<>>
      [] x.t = "num" -> x.v # 0
      [] OTHER -> FALSE

Min(a, b) == IF a < b THEN a ELSE b

\* list_expenses with e.date > start_date in place of e.date >= start_date
ListOfStartExclusive(expenses, category, start_date, end_date, limit) ==
    LET InCat(e) == e.category = Strip(Lower(category.v))
        FromStart(e) == ~StrLeq(e.date, start_date.v)
        ToEnd(e) == StrLeq(e.date, end_date.v)
        a == IF Truthy(category) THEN SelectSeq(expenses, InCat) ELSE expenses
        b == IF Truthy(start_date) THEN SelectSeq(a, FromStart) ELSE a
        c == IF Truthy(end_date) THEN SelectSeq(b, ToEnd) ELSE b
        d == SortByDateDesc(c)
    IN  IF Truthy(limit) /\ limit.v > 0 THEN SubSeq(d, 1, Min(limit.v, Len(d))) ELSE d

\* the filters, the sort and the limit of list_expenses on the loaded records
ListOf(expenses, category, start_date, end_date, limit) ==
    LET InCat(e) == e.category = Strip(Lower(category.v))
        FromStart(e) == StrLeq(start_date.v, e.date)
        ToEnd(e) == StrLeq(e.date, end_date.v)
        a == IF Truthy(category) THEN SelectSeq(expenses, InCat) ELSE expenses
        b == IF Truthy(start_date) THEN SelectSeq(a, FromStart) ELSE a
        c == IF Truthy(end_date) THEN SelectSeq(b, ToEnd) ELSE b
        d == SortByDateDesc(c)
    IN  IF Truthy(limit) /\ limit.v > 0 THEN SubSeq(d, 1, Min(limit.v, Len(d))) ELSE d

\* ExpenseManager.list_expenses
ListExpenses(f, category, start_date, end_date, limit, gen) ==
    LET ld == StorageLoad(f, gen)
    IN  IF ld.exc # "none" THEN ld
        ELSE Ok(ListOf(ld.val, category, start_date, end_date, limit))

-----------------------------------------------------------------------------
(* Arbitrary content of the backing file *)

Dict(id, amount, category, description, date) ==
    [t |-> "dict", id |-> id, amount |-> amount, category |-> category,
     description |-> description, date |-> date]

GoodRaw ==
    { Dict(Num(1), Num(1), Str(<<"a">>), Str(<<"a">>), Str(<<2, 1>>)),
      Dict(Num(2), Num(2), Str(<<" ", "A">>), Str(<<" ", "a", " ">>), Missing),
      Dict(Missing, Num(1), Str(<<"b">>), Str(<<"a">>), Str(<<2, 1>>)) }

\* records Expense.from_dict rejects with ValueError or KeyError
RejectedRaw ==
    { Dict(Num(3), Num(-1), Str(<<"a">>), Str(<<"a">>), Str(<<2, 1>>)),
      Dict(Num(3), Num(0), Str(<<"a">>), Str(<<"a">>), Str(<<2, 1>>)),
      Dict(Num(3), Num(1), Str(<<"a">>), Str(<<" ">>), Str(<<2, 1>>)),
      Dict(Num(3), Missing, Str(<<"a">>), Str(<<"a">>), Str(<<2, 1>>)),
      Dict(Num(3), Num(1), Missing, Str(<<"a">>), Str(<<2, 1>>)),
      Dict(Num(3), Num(1), Str(<<"a">>), Missing, Str(<<2, 1>>)),
      Dict(Num(3), Text, Str(<<"a">>), Str(<<"a">>), Str(<<2, 1>>)) }

\* elements on which from_dict raises TypeError or AttributeError: a null
\* amount, a category or description that is no string, an element that is
\* no object
OtherRaw ==
    { Dict(Num(3), Null, Str(<<"a">>), Str(<<"a">>), Str(<<2, 1>>)),
      Dict(Num(3), Num(1), Null, Str(<<"a">>), Str(<<2, 1>>)),
      Dict(Num(3), Num(1), Str(<<"a">>), Null, Str(<<2, 1>>)),
      [t |-> "other"] }

RawItems == GoodRaw \cup RejectedRaw \cup OtherRaw

SeqsUpTo(S, n) == UNION {[1..k -> S] : k \in 0..n}

RawFiles ==
    {File("list", d) : d \in SeqsUpTo(RawItems, MaxRaw)}
    \cup {File(k, <<>>) : k \in {"absent", "invalid", "nonlist", "undecodable", "unreadable"}}

\* a constructed JSONStorage whose file was since edited, replaced or removed
\* from outside the program
InitRaw ==
    /\ file \in RawFiles
    /\ pre = file
    /\ op = [name |-> "init"]
    /\ ret = Ok(TRUE)
    /\ wrote = FALSE
    /\ IdleThreads

SpecRaw == InitRaw /\ [][Next]_vars

-----------------------------------------------------------------------------
(* Threads of one process calling JSONStorage concurrently.  _read_data and *)
(* _write_data each run inside `with self._lock`; load_expenses and the     *)
(* list manipulation between them run outside it.  open(path, "w")          *)
(* truncates the file and json.dump fills it: in between the file is        *)
(* partial (kind "partial"; items then only remembers what it held).        *)

ThreadJobs ==
    {[name |-> "add", uuid |-> u] : u \in IDs}
    \cup {[name |-> "delete", id |-> i] : i \in IDs}
    \cup {[name |-> "load"]}

\* the Expense an adding thread passes to JSONStorage.add_expense
ThreadExpense(j) == PostInit(1, Str(<<"a">>), Str(<<"a">>), Today, j.uuid).val

\* file I/O entered without taking the lock
CanAcquireNoLock == TRUE

\* `with self._lock:` is entered only while no thread holds the lock
CanAcquire == lock = 0

\* the list a thread holds after load_expenses (its records all carry ids)
ThreadLoaded(t) == LoadData(data[t], [i \in 1..Len(data[t]) |-> 1]).val

\* whether the operation goes on to save_expenses after its load
ThreadSaves(j, d) ==
    \/ j.name = "add"
    \/ /\ j.name = "delete"
       /\ \E i \in 1..Len(d) : d[i].id.v = j.id

\* an add that appends its record to what the file holds when it is opened
SaveContentAppend(t, onDisk) ==
    IF job[t].name = "add"
    THEN WriteData(Append(onDisk, ToDict(ThreadExpense(job[t]))))
    ELSE SaveExpenses(WithoutId(ThreadLoaded(t), job[t].id))

\* what save_expenses hands to _write_data: the list loaded earlier with the
\* thread's change applied; what the file holds by then plays no part
SaveContent(t, onDisk) ==
    IF job[t].name = "add"
    THEN SaveExpenses(Append(ThreadLoaded(t), ThreadExpense(job[t])))
    ELSE SaveExpenses(WithoutId(ThreadLoaded(t), job[t].id))

seqVars == <<op, ret, pre, wrote>>

\* a thread calls add_expense, delete_expense or load_expenses
Start(t) ==
    /\ pc[t] = "idle"
    /\ \E j \in ThreadJobs : job' = [job EXCEPT ![t] = j]
    /\ pc' = [pc EXCEPT ![t] = "read_wait"]
    /\ UNCHANGED <<file, lock, data, inio, torn, seqVars>>

\* _read_data: `with self._lock:`
EnterRead(t) ==
    /\ pc[t] = "read_wait"
    /\ CanAcquire
    /\ lock' = t
    /\ inio' = [inio EXCEPT ![t] = "read"]
    /\ pc' = [pc EXCEPT ![t] = "reading"]
    /\ UNCHANGED <<file, job, data, torn, seqVars>>

\* _read_data: open, json.load, return (the lock is released on the way out)
DoRead(t) ==
    /\ pc[t] = "reading"
    /\ data' = [data EXCEPT ![t] = ReadData(file).val]
    /\ torn' = (torn \/ file.kind = "partial")
    /\ lock' = 0
    /\ inio' = [inio EXCEPT ![t] = "none"]
    /\ pc' = [pc EXCEPT ![t] =
                IF ThreadSaves(job[t], ReadData(file).val) THEN "write_wait" ELSE "done"]
    /\ UNCHANGED <<file, job, seqVars>>

\* _write_data: `with self._lock:`
EnterWrite(t) ==
    /\ pc[t] = "write_wait"
    /\ CanAcquire
    /\ lock' = t
    /\ inio' = [inio EXCEPT ![t] = "write"]
    /\ pc' = [pc EXCEPT ![t] = "opening"]
    /\ UNCHANGED <<file, job, data, torn, seqVars>>

\* _write_data: open(self.filepath, "w") truncates the file
OpenForWrite(t) ==
    /\ pc[t] = "opening"
    /\ file' = File("partial", Stored(file))
    /\ pc' = [pc EXCEPT ![t] = "dumping"]
    /\ UNCHANGED <<lock, job, data, inio, torn, seqVars>>

\* _write_data: json.dump completes, the file is closed, the lock released
DumpAndClose(t) ==
    /\ pc[t] = "dumping"
    /\ file' = SaveContent(t, file.items)
    /\ lock' = 0
    /\ inio' = [inio EXCEPT ![t] = "none"]
    /\ pc' = [pc EXCEPT ![t] = "done"]
    /\ UNCHANGED <<job, data, torn, seqVars>>

NextThreads ==
    \E t \in Threads :
        \/ Start(t)
        \/ EnterRead(t)
        \/ DoRead(t)
        \/ EnterWrite(t)
        \/ OpenForWrite(t)
        \/ DumpAndClose(t)

SpecThreads == Init /\ [][NextThreads]_vars

-----------------------------------------------------------------------------
(* list_expenses on a stored collection *)

ListCategories == {<<"a">>, <<"b">>}
ListDates == {<<1, 9>>, <<2>>, <<2, 1>>}

\* the collections add_expense can have stored: record i carries id i
ListFiles ==
    UNION { { SaveExpenses([i \in 1..k |->
                  [id |-> i, amount |-> 1, category |-> c[i],
                   description |-> <<"a">>, date |-> d[i]]]) :
              c \in [1..k -> ListCategories], d \in [1..k -> ListDates] } :
            k \in 0..MaxList }

CategoryArgs == {Missing, Str(<<>>), Str(<<" ", "A">>), Str(<<"b">>)}
StartArgs == {Missing, Str(<<2>>)}
EndArgs == {Missing, Str(<<2>>), Str(<<2, 1>>)}
LimitArgs == {Missing, Num(-1), Num(0), Num(1), Num(2)}

InitList ==
    /\ file \in ListFiles
    /\ pre = file
    /\ op = [name |-> "init"]
    /\ ret = Ok(TRUE)
    /\ wrote = FALSE
    /\ IdleThreads

ListCall ==
    \E category \in CategoryArgs, start_date \in StartArgs, end_date \in EndArgs,
       limit \in LimitArgs, gen \in GenChoices(Stored(file)) :
        /\ op.name = "init"
        /\ Finish([name |-> "list", category |-> category, start_date |-> start_date,
                   end_date |-> end_date, limit |-> limit, gen |-> gen],
                  Outcome(ListExpenses(file, category, start_date, end_date, limit, gen),
                          file, FALSE))

NextList == NewStorage \/ ListCall

SpecList == InitList /\ [][NextList]_vars

-----------------------------------------------------------------------------
(* ExpenseManager.get_summary.  total and average are kept in hundredths   *)
(* of the currency unit, which is what round(2) leaves of them.            *)

\* most records of the collection get_summary is run on
MaxSummary == 3

\* str.startswith
StartsWith(s, p) == Len(p) <= Len(s) /\ SubSeq(s, 1, Len(p)) = p

\* round(2) cutting the third decimal off instead of rounding
Round2Truncate(num, den) == (100 * num) \div den

\* Series.round(2) of num/den (num >= 0, den > 0), in hundredths: the nearest
\* hundredth, the even one on a tie
Round2(num, den) ==
    LET q == (100 * num) \div den
        r == (100 * num) % den
    IN  IF 2 * r < den THEN q
        ELSE IF 2 * r > den THEN q + 1
        ELSE IF q % 2 = 0 THEN q ELSE q + 1

\* ("amount", "sum") of one group
RECURSIVE SumAmounts(_)
SumAmounts(expenses) ==
    IF expenses = <<>> THEN 0 ELSE Head(expenses).amount + SumAmounts(Tail(expenses))

\* df[df["date"].str.startswith(month)], applied when month is truthy
MonthFilter(expenses, month) ==
    LET InMonth(e) == StartsWith(e.date, month.v)
    IN  IF Truthy(month) THEN SelectSeq(expenses, InMonth) ELSE expenses

\* groupby("category").agg(sum, count, mean): one row per category
Groups(expenses) ==
    { LET InGroup(e) == e.category = c
          g == SelectSeq(expenses, InGroup)
      IN  [category |-> c, sum |-> SumAmounts(g), count |-> Len(g)] :
      c \in {expenses[i].category : i \in 1..Len(expenses)} }

\* sort_values("total", ascending=False): the rows by total descending, rows
\* of equal total in whichever order the sort leaves them
SortedByTotal(rows) ==
    { s \in [1..Cardinality(rows) -> rows] :
        /\ \A i, j \in DOMAIN s : i # j => s[i] # s[j]
        /\ \A i, j \in DOMAIN s : i < j => s[i].sum >= s[j].sum }

\* the two round(2) calls on the sorted frame
Rounded(s) ==
    [i \in DOMAIN s |->
        [category |-> s[i].category, total |-> Round2(s[i].sum, 1),
         count |-> s[i].count, average |-> Round2(s[i].sum, s[i].count)]]

\* ExpenseManager.get_summary: every frame it may return
GetSummary(f, month, gen) ==
    LET ld == StorageLoad(f, gen)
    IN  IF ld.exc # "none" THEN {ld}
        ELSE IF ld.val = <<>> THEN {Ok(<<>>)}
        ELSE IF MonthFilter(ld.val, month) = <<>> THEN {Ok(<<>>)}
        ELSE {Ok(Rounded(s)) : s \in SortedByTotal(Groups(MonthFilter(ld.val, month)))}

SummaryCategories == {<<"a">>, <<"b">>}
SummaryAmounts == {1, 2}
SummaryDates == {<<1, 9>>, <<2, 1>>}

\* the collections add_expense can have stored: record i carries id i
SummaryFiles ==
    UNION { { SaveExpenses([i \in 1..k |->
                  [id |-> i, amount |-> a[i], category |-> c[i],
                   description |-> <<"a">>, date |-> d[i]]]) :
              c \in [1..k -> SummaryCategories], a \in [1..k -> SummaryAmounts],
              d \in [1..k -> SummaryDates] } :
            k \in 0..MaxSummary }

MonthArgs == {Missing, Str(<<>>), Str(<<2>>), Str(<<1, 9, 0>>)}

InitSummary ==
    /\ file \in SummaryFiles
    /\ pre = file
    /\ op = [name |-> "init"]
    /\ ret = Ok(TRUE)
    /\ wrote = FALSE
    /\ IdleThreads

SummaryCall ==
    \E month \in MonthArgs, gen \in GenChoices(Stored(file)) :
        \E r \in GetSummary(file, month, gen) :
            /\ op.name = "init"
            /\ Finish([name |-> "summary", month |-> month, gen |-> gen],
                      Outcome(r, file, FALSE))

NextSummary == NewStorage \/ SummaryCall

SpecSummary == InitSummary /\ [][NextSummary]_vars

-----------------------------------------------------------------------------
(* Properties *)

Blank(s) == \A i \in 1..Len(s) : s[i] = " "
Count(s, x) == Cardinality({i \in 1..Len(s) : s[i] = x})
Range(s) == {s[i] : i \in 1..Len(s)}
NoFilter == Missing

\* what list_expenses() with no filters returns on file f
ListAll(f, gen) == ListExpenses(f, NoFilter, NoFilter, NoFilter, NoFilter, gen)

\* C1: add_expense with amount > 0 and a non-blank description returns, and
\* list_expenses() afterwards holds every record it held before plus exactly
\* one new record, whose category is the input lowercased and trimmed, whose
\* description is the input trimmed and whose amount and (given) date are the
\* input's; on an empty store the result is that one record.
C1_AddThenList ==
    (op.name = "add" /\ op.amount > 0 /\ ~Blank(op.description)) =>
        \A g1 \in GenChoices(Stored(pre)), g2 \in GenChoices(Stored(file)) :
            LET before == ListAll(pre, g1)
                after == ListAll(file, g2)
                new == ret.val
            IN  /\ ret.exc = "none"
                /\ before.exc = "none"
                /\ after.exc = "none"
                /\ Len(after.val) = Len(before.val) + 1
                /\ \A x \in Range(after.val) \cup Range(before.val) \cup {new} :
                    Count(after.val, x)
                        = Count(before.val, x) + (IF x = new THEN 1 ELSE 0)
                /\ new.category = Lower(Strip(op.category))
                /\ new.description = Strip(op.description)
                /\ new.amount = op.amount
                /\ (Truthy(op.date) => new.date = op.date.v)
                /\ new.id = op.uuid
                /\ (before.val = <<>> => after.val = <<new>>)

C1_Witness ==
    /\ op.name = "add"
    /\ op.amount > 0
    /\ ~Blank(op.description)
    /\ op.category # Lower(Strip(op.category))
    /\ op.description # Strip(op.description)
    /\ Truthy(op.date)
    /\ Len(Stored(pre)) > 0
    /\ Len(Stored(file)) = Len(Stored(pre)) + 1

\* C2: add_expense with amount <= 0 or a blank description raises the
\* validation error (ValueError); no record is added and the backing file is
\* neither changed nor rewritten, whatever it held.
C2_InvalidAddRejected ==
    (op.name = "add" /\ (op.amount <= 0 \/ Blank(op.description))) =>
        /\ ret.exc = "ValueError"
        /\ file = pre
        /\ ~wrote

C2_Witness ==
    /\ op.name = "add"
    /\ op.amount > 0
    /\ Blank(op.description)
    /\ ret.exc = "ValueError"
    /\ pre.kind = "list"
    /\ Len(pre.items) > 0

\* the id element i of the file is loaded with
IdOf(item, uuid) == IF item.id.t = "missing" THEN uuid ELSE item.id.v

NoRecordHasId(f, id, gen) ==
    \A i \in 1..Len(Stored(f)) :
        Stored(f)[i].t = "dict" => IdOf(Stored(f)[i], gen[i]) # id

\* C3: delete_expense with an id no stored record has returns false and
\* leaves the backing file as it was, for every prior content of the file.
C3_DeleteUnknownId ==
    (op.name = "delete" /\ NoRecordHasId(pre, op.id, op.gen)) =>
        /\ ret.exc = "none"
        /\ ret.val = FALSE
        /\ file = pre
        /\ ~wrote

\* C4: load_expenses never raises, and returns the empty collection when the
\* file is absent, unreadable or no JSON array.
C4_LoadNeverRaises ==
    op.name = "load" =>
        /\ ret.exc = "none"
        /\ (pre.kind # "list" => ret.val = <<>>)

IsValidRecord(item) ==
    /\ item.t = "dict"
    /\ item.amount.t = "num"
    /\ item.amount.v > 0
    /\ item.category.t = "str"
    /\ item.description.t = "str"
    /\ ~Blank(item.description.v)

\* C5: on a JSON array mixing valid and invalid records load_expenses returns
\* exactly the valid ones, in file order; no bad record aborts the load.
C5_LoadKeepsValid ==
    (/\ op.name = "load"
     /\ pre.kind = "list"
     /\ \E i \in 1..Len(pre.items) : IsValidRecord(pre.items[i])
     /\ \E i \in 1..Len(pre.items) : ~IsValidRecord(pre.items[i])) =>
        LET valid == SelectSeq(pre.items, IsValidRecord)
        IN  /\ ret.exc = "none"
            /\ Len(ret.val) = Len(valid)
            /\ \A i \in 1..Len(valid) :
                /\ ret.val[i].amount = valid[i].amount.v
                /\ ret.val[i].id = IdOf(valid[i], op.gen[i])
                /\ ret.val[i].category = Lower(Strip(valid[i].category.v))
                /\ ret.val[i].description = Strip(valid[i].description.v)

\* C8: every stored record has amount > 0, a non-empty category equal to its
\* own lowercased and trimmed form, and a non-empty description equal to its
\* own trimmed form.
C8_RecordInvariants ==
    \A g \in GenChoices(Stored(file)) :
        LET l == StorageLoad(file, g)
        IN  l.exc = "none" =>
                \A i \in 1..Len(l.val) :
                    /\ l.val[i].amount > 0
                    /\ l.val[i].category # <<>>
                    /\ l.val[i].category = Lower(Strip(l.val[i].category))
                    /\ l.val[i].description # <<>>
                    /\ l.val[i].description = Strip(l.val[i].description)

\* C9: no two stored records share an id.
C9_UniqueIds ==
    \A g \in GenChoices(Stored(file)) :
        LET l == StorageLoad(file, g)
        IN  l.exc = "none" =>
                \A i, j \in 1..Len(l.val) : i # j => l.val[i].id # l.val[j].id

InIO(t) == inio[t] # "none"

\* C6: at most one thread at a time is inside _read_data or _write_data, so
\* no read overlaps a write and no two writes overlap, and no read ever
\* returns a half-written file.
C6_MutualExclusion ==
    /\ \A t1, t2 \in Threads : (InIO(t1) /\ InIO(t2)) => t1 = t2
    /\ \A t \in Threads : InIO(t) => lock = t
    /\ ~torn

C6_Witness ==
    \E t1, t2 \in Threads :
        /\ t1 # t2
        /\ pc[t1] = "dumping"
        /\ file.kind = "partial"
        /\ pc[t2] = "read_wait"

AddsDone(t1, t2) ==
    /\ t1 # t2
    /\ pc[t1] = "done" /\ job[t1].name = "add"
    /\ pc[t2] = "done" /\ job[t2].name = "add"

\* C7: when two concurrent add_expense calls both load before either saves,
\* both return and the stored collection then holds only one of the two
\* added records.
C7_LostUpdate ==
    \A t1, t2 \in Threads :
        (/\ AddsDone(t1, t2)
         /\ data[t1] = data[t2]
         /\ \A t \in Threads \ {t1, t2} : pc[t] = "idle") =>
            /\ file.kind = "list"
            /\ Len(file.items) = Len(data[t1]) + 1
            /\ \/ file.items = Append(data[t1], ToDict(ThreadExpense(job[t1])))
               \/ file.items = Append(data[t1], ToDict(ThreadExpense(job[t2])))

C7_Witness ==
    \E t1, t2 \in Threads :
        /\ AddsDone(t1, t2)
        /\ job[t1].uuid # job[t2].uuid
        /\ file.kind = "list"
        /\ Len(file.items) = 1
        /\ file.items[1].id.v = job[t2].uuid

\* an optional argument that was passed (None and "" are not)
Given(x) == x.t = "str" /\ x.v # <<>>

\* the record passes the filters of the call
Matches(e, o) ==
    /\ Given(o.category) => e.category = Lower(Strip(o.category.v))
    /\ Given(o.start_date) => StrLeq(o.start_date.v, e.date)
    /\ Given(o.end_date) => StrLeq(e.date, o.end_date.v)

\* C10: list_expenses returns exactly the stored records of the given
\* category whose date lies within the given bounds (inclusive, compared as
\* strings), by date descending, cut to the first `limit` when limit is
\* positive; an absent or non-positive limit returns all of them.
C10_ListExpenses ==
    op.name = "list" =>
        LET all == StorageLoad(pre, op.gen).val
            res == ret.val
            nmatch == Cardinality({i \in 1..Len(all) : Matches(all[i], op)})
            positive == op.limit.t = "num" /\ op.limit.v > 0
        IN  /\ ret.exc = "none"
            /\ \A x \in Range(res) : Matches(x, op) /\ Count(res, x) <= Count(all, x)
            /\ \A i, j \in 1..Len(res) : i < j => StrLeq(res[j].date, res[i].date)
            /\ Len(res) = IF positive THEN Min(op.limit.v, nmatch) ELSE nmatch
            /\ \A x \in Range(all) \ Range(res) :
                   Matches(x, op) => \A y \in Range(res) : StrLeq(x.date, y.date)

C10_Witness ==
    /\ op.name = "list"
    /\ Given(op.category) /\ Given(op.start_date) /\ Given(op.end_date)
    /\ op.limit.t = "num" /\ op.limit.v = 1
    /\ Len(ret.val) = 1
    /\ Len(Stored(pre)) = 3
    /\ Cardinality({i \in 1..3 : Matches(StorageLoad(pre, op.gen).val[i], op)}) = 2
    /\ \E i \in 1..3 : ~StrLeq(Stored(pre)[i].date.v, op.end_date.v)

InMonthOf(e, o) == Given(o.month) => StartsWith(e.date, o.month.v)

RECURSIVE AmountSum(_, _, _)
AmountSum(all, o, c) ==
    IF all = <<>> THEN 0
    ELSE (IF InMonthOf(Head(all), o) /\ Head(all).category = c
          THEN Head(all).amount ELSE 0) + AmountSum(Tail(all), o, c)

\* v hundredths is a nearest hundredth to num/den
Nearest(v, num, den) ==
    LET d == v * den - 100 * num
    IN  2 * (IF d < 0 THEN -d ELSE d) <= den

\* what C11 and its amended form share: one row per distinct category of
\* the month's records, its count, the rows by total descending, nothing
\* when no record matches
SummaryShape ==
    LET all == StorageLoad(pre, op.gen).val
        rows == ret.val
        sel == {i \in 1..Len(all) : InMonthOf(all[i], op)}
        cats == {all[i].category : i \in sel}
    IN  /\ ret.exc = "none"
        /\ Len(rows) = Cardinality(cats)
        /\ {rows[i].category : i \in 1..Len(rows)} = cats
        /\ \A i \in 1..Len(rows) :
               rows[i].count = Cardinality({k \in sel : all[k].category = rows[i].category})
        /\ \A i, j \in 1..Len(rows) : i < j => rows[i].total >= rows[j].total
        /\ (sel = {} => rows = <<>>)

\* C11 as stated: the shape above, each total the sum of the category's
\* amounts and each average exactly total divided by count.
C11_SummaryExact ==
    op.name = "summary" =>
        /\ SummaryShape
        /\ \A i \in 1..Len(ret.val) :
            LET row == ret.val[i]
                sum == AmountSum(StorageLoad(pre, op.gen).val, op, row.category)
            IN  /\ row.total = 100 * sum
                /\ row.average * row.count = row.total

\* C11 as amended: the shape above, each total the sum of the category's
\* amounts rounded to two decimals and each average the mean of those
\* amounts rounded to two decimals.
C11_SummaryRounded ==
    op.name = "summary" =>
        /\ SummaryShape
        /\ \A i \in 1..Len(ret.val) :
            LET row == ret.val[i]
                sum == AmountSum(StorageLoad(pre, op.gen).val, op, row.category)
            IN  /\ Nearest(row.total, sum, 1)
                /\ Nearest(row.average, sum, row.count)

C11_Witness ==
    /\ op.name = "summary"
    /\ Given(op.month)
    /\ Len(Stored(pre)) = 3
    /\ Len(ret.val) = 1
    /\ ret.val[1].count = 3
    /\ ret.val[1].total = 500
    /\ ret.val[1].average = 167

====
